---- MODULE Spec2Model ----
(***************************************************************************)
(* Deployment orchestration of prototipo_actualizacion_sitios:             *)
(*   src/src/svn_manager.py          SVNManager                            *)
(*   src/src/deployment_executor.py  DeploymentExecutor, main              *)
(*   src/src/config_reader.py        validate_environment_config           *)
(*                                                                         *)
(* Text (file contents, file names, configuration values) is a sequence of *)
(* one-character strings, so that parsing, formatting and prefix/suffix    *)
(* tests are computed and not assumed.                                     *)
(***************************************************************************)
EXTENDS Integers, Sequences, FiniteSets, TLC

----------------------------------------------------------------------------
(* Bounds of the model *)

\* create_release_tag calls in one session of a single writer
MaxCalls == 3
\* largest integer the counter store holds initially
MaxStored == 42
\* sites deployed by one batch run of main
MaxSites == 2
\* entries in one listing of the build output directory
MaxListing == 2

----------------------------------------------------------------------------
(* Program constants *)

\* svn_manager.py:85  last_version = 39
BaselineVersion == 39
\* svn_manager.py:88  new_version = last_version + 2
VersionStep == 2

----------------------------------------------------------------------------
(* Text helpers: str(), int(), str.strip(), startswith, endswith *)

Digits == <<"0", "1", "2", "3", "4", "5", "6", "7", "8", "9">>

DigitSet == {Digits[i] : i \in 1..10}

Whitespace == {" ", "\n", "\t", "\r"}

DigitVal(c) == (CHOOSE i \in 1..10 : Digits[i] = c) - 1

RECURSIVE str_nat(_)
str_nat(n) ==
    IF n < 10 THEN <<Digits[n + 1]>>
    ELSE Append(str_nat(n \div 10), Digits[(n % 10) + 1])

\* str(new_version)
str(n) == IF n < 0 THEN <<"-">> \o str_nat(-n) ELSE str_nat(n)

RECURSIVE lstrip(_)
lstrip(s) ==
    IF s # <<>> /\ Head(s) \in Whitespace THEN lstrip(Tail(s)) ELSE s

RECURSIVE rstrip(_)
rstrip(s) ==
    IF s # <<>> /\ s[Len(s)] \in Whitespace
    THEN rstrip(SubSeq(s, 1, Len(s) - 1))
    ELSE s

\* f.read().strip()
strip(s) == rstrip(lstrip(s))

\* the digits of an integer literal, after the sign: decimal digits, with
\* single underscores allowed between digits
IsDigitBody(b) ==
    /\ b # <<>>
    /\ \A i \in 1..Len(b) : b[i] \in DigitSet \cup {"_"}
    /\ b[1] \in DigitSet
    /\ b[Len(b)] \in DigitSet
    /\ \A i \in 1..(Len(b) - 1) : ~(b[i] = "_" /\ b[i + 1] = "_")

HasSign(s) == s # <<>> /\ Head(s) \in {"+", "-"}

DigitBody(s) == IF HasSign(s) THEN Tail(s) ELSE s

\* int(text) raises ValueError unless this holds
int_parses(s) == IsDigitBody(DigitBody(strip(s)))

RECURSIVE nat_value(_)
nat_value(b) ==
    IF b = <<>> THEN 0
    ELSE IF b[Len(b)] = "_" THEN nat_value(SubSeq(b, 1, Len(b) - 1))
    ELSE 10 * nat_value(SubSeq(b, 1, Len(b) - 1)) + DigitVal(b[Len(b)])

\* int(text), for a text that parses
int(s) ==
    LET t == strip(s)
        v == nat_value(DigitBody(t))
    IN  IF HasSign(t) /\ Head(t) = "-" THEN -v ELSE v

startswith(s, p) == Len(p) <= Len(s) /\ SubSeq(s, 1, Len(p)) = p

endswith(s, p) ==
    Len(p) <= Len(s) /\ SubSeq(s, Len(s) - Len(p) + 1, Len(s)) = p

----------------------------------------------------------------------------
(* Outcomes of external processes and of file operations *)

\* subprocess.run(..., timeout=30): exit zero, nonzero exit, TimeoutExpired,
\* or another exception raised at launch
Outcomes == {"zero", "nonzero", "timeout", "error"}

\* subprocess.run without a timeout, for a process that exits
SvnOutcomes == {"zero", "nonzero", "error"}

\* an external process exits, or never does
ProcessFates == {"exits", "never_exits"}

\* the subprocess.run calls of one deployment
ExternalCalls == {"sync", "tag_copy", "checkout", "tasklist", "stop", "start"}

\* whether the call passes timeout=: svn_manager.py:62, 107 and 167-172 and
\* deployment_executor.py:155-160 do not; 249-256 and 286-292 pass timeout=30
has_timeout(call) == call \in {"stop", "start"}

\* what subprocess.run does for its caller: it returns (or raises at launch)
\* when the process exits, raises TimeoutExpired when a timeout was passed,
\* and otherwise waits for as long as the process lives
wait_for(call, fate) ==
    IF fate = "exits" THEN "returns"
    ELSE IF has_timeout(call) THEN "TimeoutExpired"
    ELSE "blocks"

\* the outcome of one attempt of a stop or start command (one of Outcomes),
\* or "blocks": the exit of the process, or what the wait makes of a process
\* that never exits
attempt_outcome(call, fate, exited) ==
    CASE wait_for(call, fate) = "returns" -> exited
      [] wait_for(call, fate) = "TimeoutExpired" -> "timeout"
      [] wait_for(call, fate) = "blocks" -> "blocks"

\* the positions of a deployment that waits in subprocess.run
Blocked ==
    {"blocked_sync", "blocked_tag_copy", "blocked_checkout",
     "blocked_tasklist", "blocked_stop", "blocked_start"}

\* open('last_tag_version.txt', 'r'): the file is opened (or found missing),
\* or another OSError is raised
ReadOutcomes == {"ok", "oserror"}

\* with open('last_tag_version.txt', 'w') as f: f.write(...): written, open
\* raised (the file is as before), or the write raised after open truncated
WriteOutcomes == {"ok", "open_error", "write_error"}

----------------------------------------------------------------------------
(* The counter store: the file last_tag_version.txt *)

MissingFile == [exists |-> FALSE, text |-> <<>>]

File(t) == [exists |-> TRUE, text |-> t]

HoldsInteger(st) == st.exists /\ int_parses(st.text)

IntegerHeld(st) == int(st.text)

InitStores ==
    {MissingFile, File(<<>>), File(<<"x">>)}
        \cup {File(str(v)) : v \in (MaxStored - 3)..MaxStored}
        \cup {File(<<" ">> \o str(MaxStored) \o <<"\n">>), File(<<"-", "3">>)}

----------------------------------------------------------------------------
(* SVNManager.create_release_tag, svn_manager.py:75-122 *)

\* lines 81-85: the last version, or the default when the file is missing
\* (FileNotFoundError) or does not parse (ValueError)
read_last_version(st) ==
    IF HoldsInteger(st) THEN IntegerHeld(st) ELSE BaselineVersion

\* line 88
next_version(last) == last + VersionStep

\* faulty variant: the return code is not looked at
copy_confirmed_unchecked(copyOut) == copyOut # "error"

\* lines 107-111: the counter is written only after svn copy exited zero;
\* an exception of subprocess.run goes to the handler of lines 120-122
copy_confirmed(copyOut) == copyOut = "zero"

\* lines 114-115: open(..., 'w') truncates, write() stores str(new_version)
write_counter(st, v, writeOut) ==
    CASE writeOut = "ok" -> File(str(v))
      [] writeOut = "open_error" -> st
      [] writeOut = "write_error" -> File(<<>>)

\* the whole call: the value returned, the store afterwards, the version of
\* the tag name, whether svn copy was run and whether it made the tag
create_release_tag(st, readOut, copyOut, writeOut) ==
    IF readOut = "oserror"
    THEN [ret |-> FALSE, store |-> st, version |-> 0,
          issued |-> FALSE, copied |-> FALSE]
    ELSE LET new_version == next_version(read_last_version(st))
         IN  IF ~copy_confirmed(copyOut)
             THEN [ret |-> FALSE, store |-> st, version |-> new_version,
                   issued |-> TRUE, copied |-> copyOut = "zero"]
             ELSE [ret |-> writeOut = "ok",
                   store |-> write_counter(st, new_version, writeOut),
                   version |-> new_version,
                   issued |-> TRUE, copied |-> copyOut = "zero"]

\* SVNManager.handle_svn_operations, svn_manager.py:19-73: True iff the svn
\* checkout/update exits zero; every exception returns False
handle_svn_operations(syncOut) == syncOut = "zero"

----------------------------------------------------------------------------
(* SVNManager.checkout_project, svn_manager.py:124-191 *)

\* line 130: if not project_name
name_missing(project_name) == project_name = <<>>

\* faulty variant: the return code of svn checkout is not looked at
checkout_failed_ignored(cmdOut) == FALSE

\* line 175
checkout_failed(cmdOut) == cmdOut # "zero"

\* faulty variant: the listing is not looked at
directory_empty_unchecked(entries) == FALSE

\* line 183: if not os.listdir(local_path)
directory_empty(entries) == entries = <<>>

\* fsOut: os.makedirs / shutil.rmtree of lines 139-149; cmdOut: svn checkout;
\* entries: the listing of the checkout directory afterwards
checkout_project(project_name, fsOut, cmdOut, entries) ==
    IF name_missing(project_name) THEN "raised"
    ELSE IF fsOut # "ok" THEN "raised"
    ELSE IF cmdOut = "error" THEN "raised"
    ELSE IF checkout_failed(cmdOut) THEN "raised"
    ELSE IF directory_empty(entries) THEN "raised"
    ELSE "returned"

\* the exception checkout_project raises (and re-raises at line 191), or
\* "none": ValueError at 131, an OSError of os.makedirs / shutil.rmtree or of
\* launching svn, Exception at 180 and 184
checkout_exception(project_name, fsOut, cmdOut, entries) ==
    IF name_missing(project_name) THEN "ValueError"
    ELSE IF fsOut # "ok" THEN "OSError"
    ELSE IF cmdOut = "error" THEN "OSError"
    ELSE IF checkout_failed(cmdOut) THEN "Exception"
    ELSE IF directory_empty(entries) THEN "Exception"
    ELSE "none"

----------------------------------------------------------------------------
(* Exception handlers around the service phase *)

\* the classes an exception is an instance of
Ancestors(exc) ==
    CASE exc = "ValueError" -> {"ValueError", "Exception"}
      [] exc = "OSError" -> {"OSError", "Exception"}
      [] exc = "FileNotFoundError" ->
            {"FileNotFoundError", "OSError", "Exception"}
      [] exc = "Exception" -> {"Exception"}

\* the handlers an exception of the checkout or of the artifact lookup meets,
\* innermost first: deployment_executor.py:230-232 and 234-236 in
\* _manage_tomcat_operations, 75-77 in execute_site_deployment
ServiceHandlers == <<"build_error", "general", "deployment">>

\* faulty variant: every handler catches OSError only
handler_class_os_only(handler) == "OSError"

\* faulty variant: the handlers of _manage_tomcat_operations catch OSError
\* only
handler_class_inner_os_only(handler) ==
    IF handler = "deployment" THEN "Exception" ELSE "OSError"

\* lines 230, 234 and 75: except Exception
handler_class(handler) == "Exception"

catches(handler, exc) == handler_class(handler) \in Ancestors(exc)

\* the first handler that catches the exception, or "none"
caught_by(exc) ==
    IF \E i \in 1..Len(ServiceHandlers) : catches(ServiceHandlers[i], exc)
    THEN ServiceHandlers[CHOOSE i \in 1..Len(ServiceHandlers) :
            /\ catches(ServiceHandlers[i], exc)
            /\ \A j \in 1..(i - 1) : ~catches(ServiceHandlers[j], exc)]
    ELSE "none"

----------------------------------------------------------------------------
(* DeploymentExecutor._execute_tomcat_command, deployment_executor.py:237-311 *)

\* lines 241-245
stop_methods == <<"shutdown.bat", "taskkill", "net stop">>

\* lines 279-282
startup_scripts == <<"startup.bat", "net start">>

\* faulty variants of the loop body: no return on exit zero; TimeoutExpired
\* not caught in the loop; other exceptions not caught in the loop
stop_attempt_no_return(out) == "continue"

stop_attempt_timeout_escapes(out) ==
    CASE out = "zero" -> "return_true"
      [] out = "timeout" -> "propagate"
      [] OTHER -> "continue"

stop_attempt_error_escapes(out) ==
    CASE out = "zero" -> "return_true"
      [] out = "error" -> "propagate"
      [] OTHER -> "continue"

\* lines 248-272, one iteration of the stop loop: return True on exit zero
\* (259-262); log and go on after a nonzero exit (265-267), TimeoutExpired
\* (269-270) or any other exception (271-272)
stop_attempt(out) ==
    CASE out = "zero" -> "return_true"
      [] out = "nonzero" -> "continue"
      [] out = "timeout" -> "continue"
      [] out = "error" -> "continue"

\* lines 285-304, one iteration of the start loop
start_attempt(out) ==
    CASE out = "zero" -> "return_true"
      [] out = "nonzero" -> "continue"
      [] out = "timeout" -> "continue"
      [] out = "error" -> "continue"

NoCmd == [action |-> "none", log |-> <<>>, ret |-> "none"]

StartCmd(action) == [action |-> action, log |-> <<>>, ret |-> "pending"]

\* the command record after attempt number Len(c.log) + 1 of `methods`
\* ended with `out` and the loop body answered `step`; an exception that
\* leaves the loop is caught at lines 309-311, which return False
after_attempt(c, methods, out, step) ==
    LET i == Len(c.log) + 1
        log == Append(c.log, [method |-> methods[i], outcome |-> out])
    IN  [action |-> c.action,
         log |-> log,
         ret |-> CASE step = "return_true" -> "True"
                   [] step = "propagate" -> "False"
                   [] step = "continue" /\ i = Len(methods) -> "False"
                   [] OTHER -> "pending"]

----------------------------------------------------------------------------
(* validate_environment_config, config_reader.py:44-78 *)

LowerLetters ==
    <<"a", "b", "c", "d", "e", "f", "g", "h", "i", "j", "k", "l", "m",
      "n", "o", "p", "q", "r", "s", "t", "u", "v", "w", "x", "y", "z">>

UpperLetters ==
    <<"A", "B", "C", "D", "E", "F", "G", "H", "I", "J", "K", "L", "M",
      "N", "O", "P", "Q", "R", "S", "T", "U", "V", "W", "X", "Y", "Z">>

upper_char(c) ==
    IF \E i \in 1..Len(LowerLetters) : LowerLetters[i] = c
    THEN UpperLetters[CHOOSE i \in 1..Len(LowerLetters) : LowerLetters[i] = c]
    ELSE c

\* str.upper()
upper(s) == [i \in 1..Len(s) |-> upper_char(s[i])]

\* sub in s
contains(s, sub) ==
    \E i \in 0..(Len(s) - Len(sub)) : SubSeq(s, i + 1, i + Len(sub)) = sub

\* dict.get(key, default)
Get(config, key, default) ==
    IF key \in DOMAIN config THEN config[key] ELSE default

ORACLE == <<"O", "R", "A", "C", "L", "E">>

SQLSERVER == <<"S", "Q", "L", "S", "E", "R", "V", "E", "R">>

MSSQL == <<"M", "S", "S", "Q", "L">>

\* lines 56-64: the namespace prefix of the site's database type, or "" when
\* the type is not supported (ValueError)
environment_prefix(site) ==
    LET db_type == upper(Get(site, "dao.db", <<>>))
    IN  IF contains(db_type, ORACLE) THEN "upd.environment1"
        ELSE IF contains(db_type, SQLSERVER) \/ contains(db_type, MSSQL)
        THEN "upd.environment2"
        ELSE ""

\* lines 59, 62
db_scripts_path(prefix) ==
    IF prefix = "upd.environment1" THEN "src/main/resources/db/oracle"
    ELSE "src/main/resources/db/sqlserver"

\* lines 67-75, for a supported database type
validate_environment_config(site) ==
    LET prefix == environment_prefix(site)
        keys == {prefix \o "." \o key : key \in DOMAIN site}
        unprefixed(k) == CHOOSE key \in DOMAIN site : prefix \o "." \o key = k
    IN  [k \in keys \cup {"db.scripts.path"} |->
            IF k = "db.scripts.path" THEN db_scripts_path(prefix)
            ELSE site[unprefixed(k)]]

\* the rows read_sites_excel returns: one war name, the database types of
\* both environments, and one that validation refuses
DatabaseTypes ==
    {<<"o", "r", "a", "c", "l", "e">>, MSSQL, <<"m", "y", "s", "q", "l">>}

ProjectName == <<"a">>

RawConfigs ==
    {[k \in {"dao.db", "war.name", "tomcat.host"} |->
        CASE k = "dao.db" -> db
          [] k = "war.name" -> ProjectName
          [] k = "tomcat.host" -> <<"h">>] : db \in DatabaseTypes}

----------------------------------------------------------------------------
(* Files of the build output directory and of webapps *)

DotWar == <<".", "w", "a", "r">>

DotOriginal == <<".", "o", "r", "i", "g", "i", "n", "a", "l">>

\* a.war, ab.war, b.war, a.war.original
TargetFiles ==
    {<<"a">> \o DotWar, <<"a", "b">> \o DotWar, <<"b">> \o DotWar,
     <<"a">> \o DotWar \o DotOriginal}

\* what os.listdir(target_dir) can return, in listing order
Listings ==
    UNION {{l \in [1..n -> TargetFiles] :
                \A i, j \in 1..n : i # j => l[i] # l[j]} : n \in 0..MaxListing}

\* entries of the checkout directory after svn checkout
TopListings == {<<>>, <<".svn">>, <<".svn", "target">>}

has_target(entries) == \E i \in 1..Len(entries) : entries[i] = "target"

\* deployment_executor.py:175-177
is_candidate(f, project_name) ==
    /\ endswith(f, DotWar)
    /\ ~endswith(f, DotOriginal)
    /\ startswith(f, project_name)

\* lines 173-178
candidate_wars(listing, project_name) ==
    SelectSeq(listing, LAMBDA f : is_candidate(f, project_name))

Absent == [kind |-> "absent", bytes |-> <<>>]

War(bytes) == [kind |-> "war", bytes |-> bytes]

\* what a failed shutil.copy2 can leave at the destination
Partial == [kind |-> "partial", bytes |-> <<>>]

\* the artifact deployed before the batch
OldWar == War(<<"D">>)

\* the bytes of the file `f` of the build output directory
BytesOf(f) == <<"N">> \o f

----------------------------------------------------------------------------
(* The swap of DeploymentExecutor._manage_tomcat_operations *)

\* lines 196-208. rmOut: "ok", "remove_error" (os.remove raises) or
\* "rmtree_error" (shutil.rmtree raises). The expanded directory is looked at
\* only inside the branch taken when the deployed artifact exists.
remove_existing_war(war, dir, rmOut) ==
    IF war.kind = "absent" THEN [ok |-> TRUE, war |-> war, dir |-> dir]
    ELSE IF rmOut = "remove_error" THEN [ok |-> FALSE, war |-> war, dir |-> dir]
    ELSE IF dir /\ rmOut = "rmtree_error"
    THEN [ok |-> FALSE, war |-> Absent, dir |-> TRUE]
    ELSE [ok |-> TRUE, war |-> Absent, dir |-> FALSE]

RemoveOutcomes == {"ok", "remove_error", "rmtree_error"}

\* lines 353-374, _backup_war: the copy of the deployed artifact under
\* <war_path>.<timestamp>.bak. No line of _manage_tomcat_operations calls it.
backup_war(war, timestamp) == [name |-> <<"bak", timestamp>>, bytes |-> war.bytes]

----------------------------------------------------------------------------
(* State *)

VARIABLES
    pc,                 \* where main / execute_site_deployment stands
    site,               \* sites main has finished
    exit_status,        \* "running", or the status main ended with
    site_config,        \* the validated configuration of the current site
    store,              \* last_tag_version.txt
    calls,              \* the create_release_tag calls of a session, in order
    destination_war,    \* webapps/<project_name>.war
    webapp_dir,         \* whether webapps/<project_name>/ exists
    backups,            \* backup copies next to the destination
    printed,            \* the success flags main has printed, in order
    writers,            \* concurrent create_release_tag calls, by instance
    deployment_result,  \* the dict execute_site_deployment returns
    tag,                \* what create_release_tag did in this deployment
    ops,                \* locals of _manage_tomcat_operations
    cmd                 \* the running or last _execute_tomcat_command call

vars ==
    <<pc, site, exit_status, site_config, store, calls, destination_war,
      webapp_dir, backups, printed, deployment_result, tag, ops, cmd,
      writers>>

NoConfig == <<>>

NoResult == [success |-> FALSE, steps |-> <<>>, error |-> "none"]

NoTag == [ret |-> FALSE, issued |-> FALSE, copied |-> FALSE, version |-> 0]

NoCheckout ==
    [project_name |-> <<>>, fsOut |-> "none", cmdOut |-> "none",
     entries |-> <<>>, result |-> "none"]

\* one create_release_tag call that has not read the counter yet
NoWriter ==
    [pos |-> "start", last |-> 0, version |-> 0, issued |-> FALSE,
     copied |-> FALSE, ret |-> "none"]

\* the orchestrator instances of a concurrent session
Instances == {1, 2}

NoWriters == [i \in Instances |-> NoWriter]

NoOps ==
    [checkout |-> NoCheckout, listing |-> <<>>, wars |-> <<>>,
     war_path |-> <<>>, liveness |-> "none", stop_result |-> "none",
     deployed_before |-> Absent, removed |-> "none", swap |-> "none",
     start_result |-> "none", ret |-> "none"]

Init ==
    /\ pc = "idle"
    /\ site = 0
    /\ exit_status = "running"
    /\ site_config = NoConfig
    /\ store \in {MissingFile, File(str(MaxStored))}
    /\ calls = <<>>
    /\ destination_war \in {Absent, OldWar}
    /\ webapp_dir \in BOOLEAN
    /\ backups = {}
    /\ printed = <<>>
    /\ writers = NoWriters
    /\ deployment_result = NoResult
    /\ tag = NoTag
    /\ ops = NoOps
    /\ cmd = NoCmd

----------------------------------------------------------------------------
(* A session of create_release_tag calls by one SVNManager *)

InitTag ==
    /\ pc = "idle"
    /\ site = 0
    /\ exit_status = "running"
    /\ site_config = NoConfig
    /\ store \in InitStores
    /\ calls = <<>>
    /\ destination_war = Absent
    /\ webapp_dir = FALSE
    /\ backups = {}
    /\ printed = <<>>
    /\ writers = NoWriters
    /\ deployment_result = NoResult
    /\ tag = NoTag
    /\ ops = NoOps
    /\ cmd = NoCmd

\* svn_manager.py:75-122, one call
CreateReleaseTag ==
    /\ Len(calls) < MaxCalls
    /\ \E readOut \in ReadOutcomes, copyOut \in SvnOutcomes,
          writeOut \in WriteOutcomes :
          LET r == create_release_tag(store, readOut, copyOut, writeOut)
          IN  /\ store' = r.store
              /\ calls' = Append(calls,
                    [before |-> store, after |-> r.store, ret |-> r.ret,
                     version |-> r.version, issued |-> r.issued,
                     copied |-> r.copied])
    /\ UNCHANGED <<pc, site, exit_status, site_config, destination_war,
                   webapp_dir, backups,
                   printed, writers, deployment_result, tag, ops, cmd>>

NextTag == CreateReleaseTag

SpecTag == InitTag /\ [][NextTag]_vars

----------------------------------------------------------------------------
(* main and DeploymentExecutor.execute_site_deployment *)

\* main, deployment_executor.py:406-412, and execute_site_deployment, 48-51:
\* the next site's row passes validation and its deployment starts
BeginDeployment ==
    /\ pc = "idle"
    /\ site < MaxSites
    /\ \E raw \in RawConfigs :
          /\ environment_prefix(raw) # ""
          /\ site_config' = validate_environment_config(raw)
    /\ deployment_result' = NoResult
    /\ pc' = "svn"
    /\ UNCHANGED <<site, exit_status, store, calls, destination_war,
                   webapp_dir, backups,
                   printed, writers, tag, ops, cmd>>

\* main, 408 and 420-422: validate_environment_config raises, main logs the
\* error and exits with status 1
ValidationFails ==
    /\ pc = "idle"
    /\ site < MaxSites
    /\ \E raw \in RawConfigs : environment_prefix(raw) = ""
    /\ pc' = "exited"
    /\ exit_status' = "1"
    /\ UNCHANGED <<site, site_config, store, calls, destination_war,
                   webapp_dir, backups,
                   printed, writers, deployment_result, tag, ops, cmd>>

\* main: the list of sites is exhausted and main returns
MainReturns ==
    /\ pc = "idle"
    /\ pc' = "exited"
    /\ exit_status' = "0"
    /\ UNCHANGED <<site, site_config, store, calls, destination_war,
                   webapp_dir, backups,
                   printed, writers, deployment_result, tag, ops, cmd>>

\* _manage_svn_operations, 81-109, with the assignment of line 56
\* A process that never exits keeps the deployment in subprocess.run (line 62
\* of svn_manager.py, or line 107 once the copy has been issued).
ManageSvnOperations ==
    /\ pc = "svn"
    /\ \E syncOut \in SvnOutcomes, readOut \in ReadOutcomes,
          copyOut \in SvnOutcomes, writeOut \in WriteOutcomes,
          syncFate \in ProcessFates, copyFate \in ProcessFates :
          LET checkout_result == handle_svn_operations(syncOut)
              r == create_release_tag(store, readOut, copyOut, writeOut)
              tag_result == r.ret
              svn_result ==
                  [success |-> checkout_result /\ tag_result,
                   checkout |-> checkout_result,
                   tag_creation |-> tag_result]
          IN  IF wait_for("sync", syncFate) = "blocks"
              THEN /\ pc' = "blocked_sync"
                   /\ UNCHANGED <<store, tag, deployment_result>>
              ELSE IF r.issued /\ wait_for("tag_copy", copyFate) = "blocks"
              THEN /\ pc' = "blocked_tag_copy"
                   /\ UNCHANGED <<store, tag, deployment_result>>
              ELSE /\ store' = r.store
                   /\ tag' = [ret |-> r.ret, issued |-> r.issued,
                              copied |-> r.copied, version |-> r.version]
                   /\ deployment_result' =
                         [deployment_result EXCEPT
                             !.steps = @ @@ ("svn_operations" :> svn_result)]
                   /\ pc' = "prepare"
    /\ UNCHANGED <<site, exit_status, site_config, calls, destination_war,
                   webapp_dir, backups,
                   printed, writers, ops, cmd>>

\* _prepare_tomcat_deployment, 111-141, with the assignment of line 60
PrepareTomcatDeployment ==
    /\ pc = "prepare"
    /\ LET tomcat_result ==
              [success |-> TRUE,
               tomcat_url |-> Get(site_config, "tomcat.url", <<>>),
               tomcat_host |-> Get(site_config, "tomcat.host", <<>>),
               modules |-> Get(site_config, "tomcat.modules", <<>>)]
       IN  deployment_result' =
              [deployment_result EXCEPT
                  !.steps = @ @@ ("tomcat_deployment" :> tomcat_result)]
    /\ pc' = "ops"
    /\ UNCHANGED <<site, exit_status, site_config, store, calls,
                   destination_war, webapp_dir, backups,
                   printed, writers, tag, ops, cmd>>

\* _manage_tomcat_operations, 143-185: the project name, checkout_project,
\* the listing of target/ and the choice of the artifact. An exception of
\* checkout_project or of os.listdir (no target/ directory) goes to the first
\* handler that catches it: 230-232 and 234-236 return False; 75-77 record
\* the error and return the result without the third step; with no handler
\* the exception leaves execute_site_deployment. A checkout process that
\* never exits keeps the deployment in subprocess.run (svn_manager.py:167).
OpsCheckout ==
    /\ pc = "ops"
    /\ \E fsOut \in {"ok", "oserror"}, cmdOut \in SvnOutcomes,
          entries \in TopListings, listing \in Listings,
          fate \in ProcessFates :
          LET project_name ==
                  Get(site_config, "upd.environment1.war.name", <<>>)
              result == checkout_project(project_name, fsOut, cmdOut, entries)
              checkout ==
                  [project_name |-> project_name, fsOut |-> fsOut,
                   cmdOut |-> cmdOut, entries |-> entries, result |-> result]
              wars == candidate_wars(listing, project_name)
              exc == IF result = "raised"
                     THEN checkout_exception(project_name, fsOut, cmdOut,
                                             entries)
                     ELSE IF ~has_target(entries) THEN "FileNotFoundError"
                     ELSE "none"
          IN  IF /\ ~name_missing(project_name)
                 /\ fsOut = "ok"
                 /\ wait_for("checkout", fate) = "blocks"
              THEN /\ pc' = "blocked_checkout"
                   /\ UNCHANGED <<ops, deployment_result>>
              ELSE IF exc # "none"
              THEN CASE caught_by(exc) \in {"build_error", "general"} ->
                          /\ ops' = [ops EXCEPT !.checkout = checkout,
                                                !.ret = "False"]
                          /\ pc' = "finish"
                          /\ UNCHANGED deployment_result
                     [] caught_by(exc) = "deployment" ->
                          /\ ops' = [ops EXCEPT !.checkout = checkout]
                          /\ pc' = "returned"
                          /\ deployment_result' =
                                [deployment_result EXCEPT !.error = exc]
                     [] caught_by(exc) = "none" ->
                          /\ ops' = [ops EXCEPT !.checkout = checkout]
                          /\ pc' = "raised"
                          /\ UNCHANGED deployment_result
              ELSE IF wars = <<>>
              THEN /\ ops' = [ops EXCEPT !.checkout = checkout,
                                         !.listing = listing,
                                         !.ret = "False"]
                   /\ pc' = "finish"
                   /\ UNCHANGED deployment_result
              ELSE /\ ops' = [ops EXCEPT !.checkout = checkout,
                                         !.listing = listing,
                                         !.wars = wars,
                                         !.war_path = wars[1]]
                   /\ pc' = "liveness"
                   /\ UNCHANGED deployment_result
    /\ UNCHANGED <<site, exit_status, site_config, store, calls,
                   destination_war, webapp_dir, backups,
                   printed, writers, tag, cmd>>

\* faulty variant: the stop strategy is never called
stop_needed_never(running) == FALSE

\* faulty variant: the stop strategy is called whatever the liveness check says
stop_needed_always(running) == TRUE

\* line 189: if is_tomcat_running()
stop_needed(running) == running

\* 153-163 and 189-191: is_tomcat_running (False when tasklist raises), and
\* the call of the stop strategy when it answers True. The lists of the
\* artifact lookup are not read after line 184. A tasklist process that never
\* exits keeps the deployment in subprocess.run (line 155).
OpsLiveness ==
    /\ pc = "liveness"
    /\ \E running \in BOOLEAN, fate \in ProcessFates :
          IF wait_for("tasklist", fate) = "blocks"
          THEN /\ pc' = "blocked_tasklist"
               /\ UNCHANGED <<ops, cmd>>
          ELSE IF stop_needed(running)
          THEN /\ ops' = [ops EXCEPT !.checkout = NoCheckout,
                                     !.listing = <<>>, !.wars = <<>>,
                                     !.liveness = IF running THEN "running"
                                                  ELSE "stopped",
                                     !.deployed_before = destination_war]
               /\ cmd' = StartCmd("stop")
               /\ pc' = "stop"
          ELSE /\ ops' = [ops EXCEPT !.checkout = NoCheckout,
                                     !.listing = <<>>, !.wars = <<>>,
                                     !.liveness = IF running THEN "running"
                                                  ELSE "stopped",
                                     !.stop_result = "skipped",
                                     !.deployed_before = destination_war]
               /\ cmd' = NoCmd
               /\ pc' = "swap"
    /\ UNCHANGED <<site, exit_status, site_config, store, calls,
                   destination_war, webapp_dir, backups,
                   printed, writers, deployment_result,
                   tag>>

\* _execute_tomcat_command('stop'), 247-276: one iteration of the loop
StopAttempt ==
    /\ pc = "stop"
    /\ cmd.ret = "pending"
    /\ \E exited \in SvnOutcomes, fate \in ProcessFates :
          LET out == attempt_outcome("stop", fate, exited)
          IN  IF out = "blocks"
              THEN /\ pc' = "blocked_stop"
                   /\ UNCHANGED cmd
              ELSE /\ cmd' = after_attempt(cmd, stop_methods, out,
                                           stop_attempt(out))
                   /\ UNCHANGED pc
    /\ UNCHANGED <<site, exit_status, site_config, store, calls,
                   destination_war, webapp_dir, backups,
                   printed, writers, deployment_result,
                   tag, ops>>

\* faulty variant: a failed stop makes the phase return False
after_stop_fatal(stop_result) ==
    IF stop_result = "False" THEN "return_false" ELSE "continue"

\* 191-193: a stop strategy that returned False only logs a warning
after_stop(stop_result) == "continue"

\* 191-193: the stop strategy has returned
StopReturns ==
    /\ pc = "stop"
    /\ cmd.ret \in {"True", "False"}
    /\ IF after_stop(cmd.ret) = "return_false"
       THEN /\ ops' = [ops EXCEPT !.stop_result = cmd.ret, !.ret = "False"]
            /\ pc' = "finish"
       ELSE /\ ops' = [ops EXCEPT !.stop_result = cmd.ret]
            /\ pc' = "swap"
    /\ cmd' = NoCmd
    /\ UNCHANGED <<site, exit_status, site_config, store, calls,
                   destination_war, webapp_dir, backups,
                   printed, writers, deployment_result,
                   tag>>

\* faulty variant: the result of remove_existing_war is not looked at
after_remove_ignored(removed) == "continue"

\* 211-213: if not remove_existing_war(): return False
after_remove(removed) == IF removed THEN "continue" ELSE "return_false"

\* 195-224: remove_existing_war, shutil.copy2 and the call of the start
\* strategy
OpsSwap ==
    /\ pc = "swap"
    /\ \E rmOut \in RemoveOutcomes, cpOut \in {"ok", "error", "error_partial"} :
          LET rm == remove_existing_war(destination_war, webapp_dir, rmOut)
              removed == IF rm.ok THEN "True" ELSE "False"
          IN  IF after_remove(rm.ok) = "return_false"
              THEN /\ destination_war' = rm.war
                   /\ webapp_dir' = rm.dir
                   /\ ops' = [ops EXCEPT !.removed = removed,
                                         !.swap = "remove_failed",
                                         !.ret = "False"]
                   /\ cmd' = NoCmd
                   /\ pc' = "finish"
              ELSE IF cpOut # "ok"
              THEN /\ destination_war' =
                        IF cpOut = "error_partial" THEN Partial ELSE rm.war
                   /\ webapp_dir' = rm.dir
                   /\ ops' = [ops EXCEPT !.removed = removed,
                                         !.swap = "copy_failed",
                                         !.ret = "False"]
                   /\ cmd' = NoCmd
                   /\ pc' = "finish"
              ELSE /\ destination_war' = War(BytesOf(ops.war_path))
                   /\ webapp_dir' = rm.dir
                   /\ ops' = [ops EXCEPT !.removed = removed,
                                         !.swap = "done"]
                   /\ cmd' = StartCmd("start")
                   /\ pc' = "start"
    /\ UNCHANGED <<site, exit_status, site_config, store, calls, backups,
                   printed, writers,
                   deployment_result, tag>>

\* _execute_tomcat_command('start'), 284-307: one iteration of the loop
StartAttempt ==
    /\ pc = "start"
    /\ cmd.ret = "pending"
    /\ \E exited \in SvnOutcomes, fate \in ProcessFates :
          LET out == attempt_outcome("start", fate, exited)
          IN  IF out = "blocks"
              THEN /\ pc' = "blocked_start"
                   /\ UNCHANGED cmd
              ELSE /\ cmd' = after_attempt(cmd, startup_scripts, out,
                                           start_attempt(out))
                   /\ UNCHANGED pc
    /\ UNCHANGED <<site, exit_status, site_config, store, calls,
                   destination_war, webapp_dir, backups,
                   printed, writers, deployment_result,
                   tag, ops>>

\* faulty variant: the phase returns what the start strategy returned
after_start_strict(start_result) == start_result

\* 224-228: a start strategy that returned False only logs a warning, and
\* line 228 returns True
after_start(start_result) == "True"

\* 224-228: the start strategy has returned and _manage_tomcat_operations
\* returns
StartReturns ==
    /\ pc = "start"
    /\ cmd.ret \in {"True", "False"}
    /\ ops' = [ops EXCEPT !.start_result = cmd.ret,
                          !.ret = after_start(cmd.ret)]
    /\ cmd' = NoCmd
    /\ pc' = "finish"
    /\ UNCHANGED <<site, exit_status, site_config, store, calls,
                   destination_war, webapp_dir, backups,
                   printed, writers, deployment_result,
                   tag>>

\* faulty variant: the first step is left out of the conjunction
svn_step_ignored(svn_result, tomcat_result, tomcat_operations_result) ==
    tomcat_result.success /\ tomcat_operations_result

\* lines 67-71
overall_success(svn_result, tomcat_result, tomcat_operations_result) ==
    svn_result.success /\ tomcat_result.success /\ tomcat_operations_result

\* 64-79: the third step is recorded and the overall flag computed
Finish ==
    /\ pc = "finish"
    /\ LET tomcat_operations_result == (ops.ret = "True")
           steps == deployment_result.steps
                        @@ ("tomcat_operations" :> tomcat_operations_result)
       IN  deployment_result' =
              [success |-> overall_success(steps["svn_operations"],
                                           steps["tomcat_deployment"],
                                           tomcat_operations_result),
               steps |-> steps,
               error |-> "none"]
    /\ pc' = "returned"
    /\ UNCHANGED <<site, exit_status, site_config, store, calls,
                   destination_war, webapp_dir, backups,
                   printed, writers, tag, ops, cmd>>

\* main, 415-418: the result is printed and the loop goes to the next site
NextSite ==
    /\ pc = "returned"
    /\ site' = site + 1
    /\ printed' = Append(printed, deployment_result.success)
    /\ site_config' = NoConfig
    /\ deployment_result' = NoResult
    /\ tag' = NoTag
    /\ ops' = NoOps
    /\ pc' = "idle"
    /\ UNCHANGED <<exit_status, store, calls, destination_war, webapp_dir,
                   backups, writers, cmd>>

Next ==
    \/ BeginDeployment
    \/ ValidationFails
    \/ MainReturns
    \/ ManageSvnOperations
    \/ PrepareTomcatDeployment
    \/ OpsCheckout
    \/ OpsLiveness
    \/ StopAttempt
    \/ StopReturns
    \/ OpsSwap
    \/ StartAttempt
    \/ StartReturns
    \/ Finish
    \/ NextSite

Spec == Init /\ [][Next]_vars

----------------------------------------------------------------------------
(* Two orchestrator instances in create_release_tag on one counter file *)

\* The call is split where it touches what the instances share: the read of
\* the counter file (lines 80-88), the svn copy (107-111) and the write-back
\* (114-118). Nothing orders the steps of one instance against the other's.

InitRace ==
    /\ pc = "idle"
    /\ site = 0
    /\ exit_status = "running"
    /\ site_config = NoConfig
    /\ store \in InitStores
    /\ calls = <<>>
    /\ destination_war = Absent
    /\ webapp_dir = FALSE
    /\ backups = {}
    /\ printed = <<>>
    /\ deployment_result = NoResult
    /\ tag = NoTag
    /\ ops = NoOps
    /\ cmd = NoCmd
    /\ writers = NoWriters

\* the positions of the instances other than i
OtherPositions(i) == {writers[j].pos : j \in Instances \ {i}}

\* faulty variant: the counter file is locked from the read to the write-back
may_read_locked(others) == others \cap {"copy", "write"} = {}

\* lines 80-82: the counter file is opened with no lock taken, whatever the
\* other instances are doing
may_read(others) == TRUE

RaceFrame ==
    UNCHANGED <<pc, site, exit_status, site_config, calls, destination_war,
                webapp_dir, backups, printed, deployment_result, tag, ops,
                cmd>>

\* lines 80-88: the counter is read and the version of the tag computed
RaceRead(i) ==
    /\ writers[i].pos = "start"
    /\ may_read(OtherPositions(i))
    /\ \E readOut \in ReadOutcomes :
          IF readOut = "oserror"
          THEN writers' = [writers EXCEPT ![i].pos = "done",
                                          ![i].ret = "False"]
          ELSE LET last == read_last_version(store)
               IN  writers' = [writers EXCEPT ![i].pos = "copy",
                                              ![i].last = last,
                                              ![i].version =
                                                  next_version(last)]
    /\ UNCHANGED store
    /\ RaceFrame

\* lines 107-111: svn copy to the tag of the computed version
RaceCopy(i) ==
    /\ writers[i].pos = "copy"
    /\ \E copyOut \in SvnOutcomes :
          IF copy_confirmed(copyOut)
          THEN writers' = [writers EXCEPT ![i].pos = "write",
                                          ![i].issued = TRUE,
                                          ![i].copied = TRUE]
          ELSE writers' = [writers EXCEPT ![i].pos = "done",
                                          ![i].issued = TRUE,
                                          ![i].ret = "False"]
    /\ UNCHANGED store
    /\ RaceFrame

\* lines 114-118: the write-back of the counter and the return
RaceWrite(i) ==
    /\ writers[i].pos = "write"
    /\ \E writeOut \in WriteOutcomes :
          /\ store' = write_counter(store, writers[i].version, writeOut)
          /\ writers' = [writers EXCEPT
                            ![i].pos = "done",
                            ![i].ret = IF writeOut = "ok" THEN "True"
                                       ELSE "False"]
    /\ RaceFrame

NextRace ==
    \E i \in Instances : RaceRead(i) \/ RaceCopy(i) \/ RaceWrite(i)

SpecRace == InitRace /\ [][NextRace]_vars

----------------------------------------------------------------------------
(* Properties of the command strategies *)

MethodsOf(action) == IF action = "stop" THEN stop_methods ELSE startup_scripts

InCommand == cmd.action \in {"stop", "start"}

NoZero(log) == \A i \in 1..Len(log) : log[i].outcome # "zero"

\* C1: in the stop and the start strategy the attempts are invoked in list
\* order, and the first attempt that exits zero is the last one invoked and
\* makes the call return True; True is returned for no other reason.
C1_FirstSuccessShortCircuits ==
    InCommand =>
        /\ \A i \in 1..Len(cmd.log) :
              cmd.log[i].method = MethodsOf(cmd.action)[i]
        /\ \A k \in 1..Len(cmd.log) :
              cmd.log[k].outcome = "zero" =>
                  /\ Len(cmd.log) = k
                  /\ cmd.ret = "True"
        /\ cmd.ret = "True" =>
              /\ cmd.log # <<>>
              /\ cmd.log[Len(cmd.log)].outcome = "zero"

\* the stop strategy returned True at its third attempt, after a timeout and
\* a launch error
C1_Witness ==
    /\ cmd.action = "stop"
    /\ cmd.ret = "True"
    /\ Len(cmd.log) = 3
    /\ cmd.log[1].outcome = "timeout"
    /\ cmd.log[2].outcome = "error"

\* C2: a stop or start call in which no attempt exited zero has, when it
\* returns, tried every attempt of its list and returns False; a call never
\* ends in anything but True or False.
C2_ExhaustedReturnsFalse ==
    InCommand =>
        /\ cmd.ret \in {"pending", "True", "False"}
        /\ (cmd.ret # "pending" /\ NoZero(cmd.log)) =>
              /\ cmd.ret = "False"
              /\ Len(cmd.log) = Len(MethodsOf(cmd.action))

\* the start strategy returned False after a launch error and a nonzero exit
C2_Witness ==
    /\ cmd.action = "start"
    /\ cmd.ret = "False"
    /\ Len(cmd.log) = 2
    /\ cmd.log[1].outcome = "error"
    /\ cmd.log[2].outcome = "nonzero"

\* C3: after an attempt before the last one that exited nonzero, timed out or
\* failed to launch, the call has not returned and the next attempt of the
\* list can be invoked.
C3_FailureDoesNotAbort ==
    (/\ InCommand
     /\ cmd.log # <<>>
     /\ Len(cmd.log) < Len(MethodsOf(cmd.action))
     /\ cmd.log[Len(cmd.log)].outcome # "zero") =>
        /\ cmd.ret = "pending"
        /\ IF cmd.action = "stop" THEN ENABLED StopAttempt
                                  ELSE ENABLED StartAttempt

\* the second stop attempt was invoked after the first one timed out
C3_Witness ==
    /\ cmd.action = "stop"
    /\ Len(cmd.log) >= 2
    /\ cmd.log[1].outcome = "timeout"
    /\ cmd.log[2].method = stop_methods[2]

----------------------------------------------------------------------------
(* Properties of create_release_tag, over a session of calls *)

CopyFailed(c) == c.issued /\ ~c.copied

\* the contents of the counter store over the session: before the first
\* call, then after each call
StoreHistory ==
    IF calls = <<>> THEN <<store>>
    ELSE <<calls[1].before>> \o [i \in 1..Len(calls) |-> calls[i].after]

\* C4 as claimed: of two calls in succession whose server-side copies both
\* succeed, the second tag version is strictly greater than the first.
C4_SuccessiveCopiesIncrease ==
    \A i \in 1..(Len(calls) - 1) :
        (calls[i].copied /\ calls[i + 1].copied) =>
            calls[i + 1].version > calls[i].version

\* C5: a call whose server-side copy failed (nonzero exit or exception)
\* leaves the counter store as it was, present or absent, with the same
\* text, and returns False.
C5_FailedCopyLeavesStore ==
    \A i \in 1..Len(calls) :
        CopyFailed(calls[i]) =>
            /\ calls[i].after = calls[i].before
            /\ calls[i].ret = FALSE

\* a copy failed while the store held an integer
C5_Witness ==
    \E i \in 1..Len(calls) :
        /\ CopyFailed(calls[i])
        /\ HoldsInteger(calls[i].before)

\* C6 as claimed: the integer held in the counter store never decreases over
\* a session of calls.
C6_CounterNeverDecreases ==
    \A i, j \in 1..Len(StoreHistory) :
        (/\ i < j
         /\ HoldsInteger(StoreHistory[i])
         /\ HoldsInteger(StoreHistory[j])) =>
            IntegerHeld(StoreHistory[i]) <= IntegerHeld(StoreHistory[j])

\* C7 as claimed: no tag version is used by two successful server-side
\* copies of a session.
C7_NoTagNameReused ==
    \A i, j \in 1..Len(calls) :
        (i # j /\ calls[i].copied /\ calls[j].copied) =>
            calls[i].version # calls[j].version

----------------------------------------------------------------------------
(* Properties of a deployment *)

\* C8 as claimed: after a successful swap over an artifact that was deployed
\* at the destination, a backup copy of that artifact exists and the
\* destination holds exactly the new artifact.
C8_SwapKeepsBackup ==
    (ops.swap = "done" /\ ops.deployed_before.kind = "war") =>
        /\ \E b \in backups : b.bytes = ops.deployed_before.bytes
        /\ destination_war = War(BytesOf(ops.war_path))

\* C9: checkout_project returns a path only for a project name that is not
\* empty, a checkout command that exited zero and a checkout directory with
\* entries; in every other case it raises.
C9_CheckoutNeverReturnsEmpty ==
    LET c == ops.checkout
    IN  c.result # "none" =>
            (c.result = "returned" <=>
                /\ c.project_name # <<>>
                /\ c.fsOut = "ok"
                /\ c.cmdOut = "zero"
                /\ c.entries # <<>>)

\* the checkout command exited zero, the directory is empty, and
\* checkout_project raised
C9_Witness ==
    /\ ops.checkout.project_name # <<>>
    /\ ops.checkout.fsOut = "ok"
    /\ ops.checkout.cmdOut = "zero"
    /\ ops.checkout.entries = <<>>
    /\ ops.checkout.result = "raised"

\* C10: the success flag execute_site_deployment returns is true iff the
\* three step results are successful, and the svn_operations step is
\* successful iff the sync and the tag creation both succeeded.
C10_SuccessIsConjunction ==
    pc = "returned" =>
        LET steps == deployment_result.steps
        IN  /\ DOMAIN steps =
                 {"svn_operations", "tomcat_deployment", "tomcat_operations"}
            /\ deployment_result.success <=>
                 /\ steps["svn_operations"].success
                 /\ steps["tomcat_deployment"].success
                 /\ steps["tomcat_operations"]
            /\ steps["svn_operations"].success <=>
                 /\ steps["svn_operations"].checkout
                 /\ steps["svn_operations"].tag_creation
            /\ steps["svn_operations"].tag_creation = tag.ret
            /\ steps["tomcat_operations"] = (ops.ret = "True")

\* the sync succeeded, the tag creation failed, the service phase succeeded
\* and the deployment is reported as failed
C10_Witness ==
    /\ pc = "returned"
    /\ deployment_result.steps["svn_operations"].checkout
    /\ ~deployment_result.steps["svn_operations"].tag_creation
    /\ deployment_result.steps["tomcat_operations"]
    /\ ~deployment_result.success


\* the positions inside execute_site_deployment
InDeployment ==
    {"svn", "prepare", "ops", "liveness", "stop", "swap", "start", "finish"}

\* C11: execute_site_deployment never raises to its caller, whatever fails
\* (raised or returned) in its three phases, and from every position inside
\* it a further step towards the return is possible.
C11_NeverRaises ==
    /\ pc # "raised"
    /\ pc \in InDeployment => ENABLED Next

\* a deployment has returned after a failed first phase and a checkout that
\* raised in the third
C11_Witness ==
    /\ pc = "returned"
    /\ ops.checkout.result = "raised"
    /\ ~deployment_result.steps["svn_operations"].success


\* C12: no external-process invocation of a deployment waits without bound:
\* from every position of a deployment, a wait in subprocess.run included, a
\* further step is possible, so that execute_site_deployment returns even
\* when a process never exits.
C12_EveryCallBounded ==
    pc \in InDeployment \cup Blocked => ENABLED Next



\* C13: a stop strategy that failed at every attempt is not fatal: the phase
\* goes on to the swap, attempts the start once the swap is done, and returns
\* False only when the removal or the copy failed.
C13_StopFailureNotFatal ==
    ops.stop_result = "False" =>
        /\ pc = "swap" => ENABLED OpsSwap
        /\ ops.swap = "done" => (pc = "start" \/ ops.start_result # "none")
        /\ ops.ret = "False" => ops.swap \in {"remove_failed", "copy_failed"}

\* the stop failed, the artifact was swapped, the start was attempted and the
\* phase returned True
C13_Witness ==
    /\ ops.stop_result = "False"
    /\ ops.swap = "done"
    /\ ops.start_result # "none"
    /\ ops.ret = "True"

\* C14: when the swap is done and every start attempt failed, nothing is
\* rolled back: the destination holds the new artifact and the phase returns
\* True, recorded as such in the result.
C14_StartFailureKeepsSwap ==
    ops.start_result = "False" =>
        /\ ops.swap = "done"
        /\ destination_war = War(BytesOf(ops.war_path))
        /\ ops.ret = "True"
        /\ pc = "returned" => deployment_result.steps["tomcat_operations"]

\* every start attempt failed after the swap replaced a deployed artifact
C14_Witness ==
    /\ pc = "returned"
    /\ ops.start_result = "False"
    /\ ops.deployed_before = OldWar
    /\ ops.swap = "done"



\* C16: a failure of the removal of the stale artifact (or of its expanded
\* directory) or of the copy aborts the swap: the phase returns False and no
\* start is attempted; after a failed removal no copy is attempted either,
\* so the destination holds what the removal left of the stale artifact.
C16_SwapFailureAborts ==
    /\ ops.removed = "False" =>
          /\ ops.swap = "remove_failed"
          /\ destination_war \in {ops.deployed_before, Absent}
    /\ ops.swap \in {"remove_failed", "copy_failed"} =>
          /\ ops.ret = "False"
          /\ ops.start_result = "none"
          /\ cmd = NoCmd
          /\ pc \in {"finish", "returned"}
          /\ pc = "returned" => ~deployment_result.steps["tomcat_operations"]

\* the stale artifact was removed, the removal of its expanded directory
\* failed, and the deployment has returned
C16_Witness ==
    /\ pc = "returned"
    /\ ops.removed = "False"
    /\ ops.deployed_before = OldWar
    /\ destination_war = Absent



\* the checkout of the service phase returned and the build output holds no
\* artifact of the project (no target/ directory, or no matching .war in it)
NoArtifact ==
    /\ ops.checkout.result = "returned"
    /\ ops.liveness = "none"
    /\ ops.ret = "False"

\* a step record that carries a diagnostic of the given kind; a step recorded
\* as a bare boolean carries none
HasDiagnostic(step, kind) ==
    IF step \in BOOLEAN THEN FALSE ELSE step.error = kind

\* C15: when the build produced no artifact while the sync and the tag
\* creation succeeded, the returned result has success false, marks the
\* version-control step successful, and marks the service-lifecycle step
\* failed with a BuildError diagnostic.
C15_BuildFailureDiagnosed ==
    (/\ pc = "returned"
     /\ NoArtifact
     /\ deployment_result.steps["svn_operations"].checkout
     /\ deployment_result.steps["svn_operations"].tag_creation) =>
        /\ ~deployment_result.success
        /\ deployment_result.steps["svn_operations"].success
        /\ HasDiagnostic(deployment_result.steps["tomcat_operations"],
                         "BuildError")



\* the prefixes validate_environment_config assigns
Prefixes == {"upd.environment1", "upd.environment2"}

\* C17: whichever prefix the validated configuration carries, the project
\* name the service phase hands to checkout_project is the value stored under
\* <prefix>.war.name, and it is not empty.
C17_WarNameUnderAssignedPrefix ==
    ops.checkout.result # "none" =>
        \E prefix \in Prefixes :
            /\ (prefix \o ".war.name") \in DOMAIN site_config
            /\ ops.checkout.project_name = site_config[prefix \o ".war.name"]
            /\ ops.checkout.project_name # <<>>



\* C18: a batch run in which the result of at least one site has success
\* false ends with a non-zero exit status, also when main saw no exception.
C18_FailedSiteFailsBatch ==
    (/\ pc = "exited"
     /\ \E i \in 1..Len(printed) : ~printed[i]) => exit_status # "0"



\* the step records in the order execute_site_deployment writes them
StepOrder == <<"svn_operations", "tomcat_deployment", "tomcat_operations">>

Recorded(i) == StepOrder[i] \in DOMAIN deployment_result.steps

\* C19: the three phases run in a fixed order, a failed or raising phase
\* does not keep a later one from running, and the returned result holds a
\* step record for each of the three phases.
C19_ThreePhasesAlwaysRun ==
    /\ \A i \in 1..Len(StepOrder) :
          Recorded(i) => \A j \in 1..(i - 1) : Recorded(j)
    /\ pc = "prepare" => Recorded(1) /\ ~Recorded(2)
    /\ pc \in InDeployment \ {"svn", "prepare"} =>
          Recorded(2) /\ ~Recorded(3)
    /\ pc = "returned" => \A i \in 1..Len(StepOrder) : Recorded(i)

\* the first phase failed, the checkout of the third raised, and the result
\* came back with its three step records
C19_Witness ==
    /\ pc = "returned"
    /\ ~deployment_result.steps["svn_operations"].checkout
    /\ ops.checkout.result = "raised"
    /\ ops.checkout.cmdOut = "nonzero"
    /\ ~deployment_result.steps["tomcat_operations"]

\* C20: when the version-control phase failed (sync or tag creation), the
\* service-lifecycle phase of the same deployment returns False and does not
\* replace the deployed artifact.
C20_SvnFailureFailsService ==
    (/\ pc = "returned"
     /\ ~deployment_result.steps["svn_operations"].success) =>
        /\ ~deployment_result.steps["tomcat_operations"]
        /\ ops.swap # "done"



C22_StopSkippedWhenNotRunning ==
    ops.liveness = "stopped" =>
        /\ pc # "stop"
        /\ cmd.action # "stop"
        /\ ops.stop_result = "skipped"
        /\ pc = "swap" => ENABLED OpsSwap
        /\ ops.swap = "done" => (pc = "start" \/ ops.start_result # "none")

\* the service was not running, the artifact was swapped and the start was
\* attempted
C22_Witness ==
    /\ ops.liveness = "stopped"
    /\ ops.swap = "done"
    /\ ops.start_result # "none"



\* the conventional file name of the artifact of a project
ExactName(project_name) == project_name \o DotWar

InListing(f, listing) == \E i \in 1..Len(listing) : listing[i] = f

\* C23: whenever the build output directory lists <artifactName>.war, that
\* file is the one chosen for deployment, whatever the listing order and the
\* other files.
C23_ExactNamePreferred ==
    (/\ pc = "liveness"
     /\ InListing(ExactName(ops.checkout.project_name), ops.listing)) =>
        ops.war_path = ExactName(ops.checkout.project_name)

\* C24: after a swap that succeeded, no expanded directory of the previous
\* deployment is left next to the destination artifact.
C24_NoStaleDirectoryAfterSwap ==
    ops.swap = "done" => ~webapp_dir



\* the service phase has ended in its checkout or artifact lookup
EndedInLookup ==
    /\ pc \in {"finish", "returned"}
    /\ ops.liveness = "none"

\* C26: the liveness check is reached only after a checkout that succeeded
\* and a lookup that found an artifact; a phase that ends in its checkout or
\* lookup returns False with no stop or start command and no swap step, and
\* the step that ends it leaves the deployed artifact and its expanded
\* directory as they were.
C26_LookupFailureFrame ==
    /\ [](pc = "liveness" =>
            /\ ops.checkout.result = "returned"
            /\ ops.checkout.cmdOut = "zero"
            /\ has_target(ops.checkout.entries)
            /\ candidate_wars(ops.listing, ops.checkout.project_name) # <<>>)
    /\ [](EndedInLookup =>
            /\ ops.ret = "False"
            /\ cmd = NoCmd
            /\ ops.stop_result = "none"
            /\ ops.start_result = "none"
            /\ ops.removed = "none"
            /\ ops.swap = "none")
    /\ [][pc = "ops" =>
            /\ destination_war' = destination_war
            /\ webapp_dir' = webapp_dir
            /\ cmd' = cmd]_vars

\* a deployed artifact and its expanded directory are in place after a
\* phase whose checkout succeeded and whose lookup found no artifact
C26_Witness ==
    /\ EndedInLookup
    /\ ops.checkout.result = "returned"
    /\ has_target(ops.checkout.entries)
    /\ ops.listing # <<>>
    /\ destination_war = OldWar
    /\ webapp_dir



\* the version-control phase of the current deployment is over
AfterSvnPhase == "svn_operations" \in DOMAIN deployment_result.steps

\* C27: the tag creation does not depend on the sync: when the sync returned
\* False and the tag copy of the same deployment succeeded, the persisted
\* counter holds the version of that tag, while the step, and the deployment
\* once returned, are reported as failed.
C27_TagAdvancesAfterFailedSync ==
    (/\ AfterSvnPhase
     /\ ~deployment_result.steps["svn_operations"].checkout
     /\ tag.copied) =>
        /\ tag.issued
        /\ store = File(str(tag.version))
        /\ ~deployment_result.steps["svn_operations"].success
        /\ pc = "returned" => ~deployment_result.success



\* C25: no lock orders two concurrent create_release_tag calls: an instance
\* that has not read the counter yet can read it whatever the other is doing,
\* and each instance copies to the version computed from its own read, so
\* that both can read one counter value and copy to one tag name.
C25_ReadNeverExcluded ==
    \A i \in Instances :
        /\ writers[i].pos = "start" => ENABLED RaceRead(i)
        /\ writers[i].pos \in {"copy", "write"} =>
              writers[i].version = writers[i].last + VersionStep

\* both instances have read the same counter value and made a copy to the
\* same tag name, and neither has written the counter back
C25_Witness ==
    /\ \A i \in Instances : writers[i].pos = "write" /\ writers[i].copied
    /\ writers[1].last = writers[2].last
    /\ writers[1].version = writers[2].version


====
